---- MODULE Spec2Model ----
(***************************************************************************)
(* Session router of the MCSManager MCP server (src/src/server.ts,         *)
(* MCSManagerMCPServer.start): the POST /mcp handler, handleSessionRequest *)
(* for GET and DELETE /mcp, the Session Table `transports`, and the        *)
(* callbacks the router hands to each StreamableHTTPServerTransport        *)
(* (sessionIdGenerator, onsessioninitialized, onclose); the start-up of    *)
(* the process (main, getConfig, listen); the twelve tool handlers of      *)
(* registerTools and the Upstream Client MCSManagerAPI they call.          *)
(*                                                                         *)
(* A handler runs synchronously up to its next `await`; every `await` is a *)
(* suspension point at which other handlers and callbacks may run.  A      *)
(* suspended exchange is an element of the bag `inflight`.                 *)
(***************************************************************************)
EXTENDS Integers, FiniteSets, Sequences, Bags, TLC

\* ---------------------------------------------------------------- bounds
\* Transports the run may construct (one per exchange that takes the
\* initialize branch); also the number of distinct UUIDs available.
MaxTransports == 2
\* Exchanges that may be suspended at an await at the same time.
MaxInFlight == 2

\* ------------------------------------------------------------ vocabulary
Transports == 1..MaxTransports
\* `let transport` before any branch has assigned it.
NoTransport == 0

\* The values crypto.randomUUID() can return.
Id(i) == "uuid-" \o ToString(i)
Ids == {Id(i) : i \in 1..MaxTransports}
\* req.headers["mcp-session-id"] is undefined when the header is absent.
NoHeader == "<undefined>"
\* transport.sessionId before the transport has initialized.
NoSessionId == "<unset>"
\* `transports` is a plain object literal: besides its own keys, an index
\* expression also finds the members it inherits from Object.prototype.
ObjectPrototypeKeys == {"constructor"}
\* Header values a client may send: nothing, the empty string, any UUID
\* (issued or not), the name of an inherited member.
Headers == {NoHeader, ""} \cup Ids \cup ObjectPrototypeKeys

Verbs == {"POST", "GET", "DELETE"}
\* req.body after express.json(): no body, a request whose method is
\* "initialize", a request with any other method.
NoBody == "<none>"
Bodies == {NoBody, "initialize", "tools/call"}

\* ------------------------------------------------------------- responses
NoResponse ==
  [status |-> 0, type |-> "pending", code |-> 0, message |-> "", id |-> ""]
\* res.status(400).json({jsonrpc: "2.0", error: {code, message}, id: null})
BadRequestNoSession ==
  [status |-> 400, type |-> "json", code |-> -32000,
   message |-> "Bad Request: No valid session ID provided", id |-> "null"]
\* res.status(400).send("Invalid or missing session ID")
InvalidSession ==
  [status |-> 400, type |-> "text", code |-> 0,
   message |-> "Invalid or missing session ID", id |-> ""]
\* `transport.handleRequest` evaluated on an inherited member of the table:
\* the handler's promise rejects and the router writes no response.
HandlerTypeError ==
  [status |-> 0, type |-> "exception", code |-> 0,
   message |-> "TypeError: transport.handleRequest is not a function",
   id |-> ""]
\* express.json() could not decode the body: the middleware passes the
\* error on and the framework's error handler answers 400; the route handler
\* is never entered.
BodyDecodeError ==
  [status |-> 400, type |-> "html", code |-> 0,
   message |-> "SyntaxError", id |-> ""]
\* Responses written by the transport the exchange was routed to.
TransportAnswer(message) ==
  [status |-> 200, type |-> "transport", code |-> 0,
   message |-> message, id |-> ""]
TransportError(message) ==
  [status |-> 400, type |-> "transport", code |-> -32600,
   message |-> message, id |-> "null"]

\* No response: what the teardown hook did when a close signal fired it.
HookOutcome(table, sessionId) ==
  [status |-> 0, type |-> "hook", code |-> 0,
   message |-> IF sessionId \in DOMAIN table THEN "entry removed"
               ELSE "no entry", id |-> ""]

\* ------------------------------------------------------ JavaScript values
\* Truthiness of the header value in `sessionId && ...` and `!sessionId`.
Truthy(sessionId) == sessionId # NoHeader /\ sessionId # ""
\* Truthiness of this.transports[sessionId]: an own key or an inherited one.
TableIndexTruthy(table, sessionId) ==
  sessionId \in DOMAIN table \/ sessionId \in ObjectPrototypeKeys
\* `req.body && req.body.method === "initialize"`
IsInitializeBody(body) == body # NoBody /\ body = "initialize"

\* Mutant: the initialize branch forgets to look at the body's method.
PostBranch_NoMethodCheck(table, sessionId, body) ==
  IF Truthy(sessionId) /\ TableIndexTruthy(table, sessionId) THEN "reuse"
  ELSE IF ~Truthy(sessionId) THEN "initialize"
  ELSE "reject"

\* Mutant: the handler tests for an initialize body before it looks at the
\* session header.
PostBranch_BodyFirst(table, sessionId, body) ==
  IF IsInitializeBody(body) THEN "initialize"
  ELSE IF Truthy(sessionId) /\ TableIndexTruthy(table, sessionId) THEN "reuse"
  ELSE "reject"

\* The branch the POST handler takes.
PostBranch(table, sessionId, body) ==
  IF Truthy(sessionId) /\ TableIndexTruthy(table, sessionId) THEN "reuse"
  ELSE IF ~Truthy(sessionId) /\ IsInitializeBody(body) THEN "initialize"
  ELSE "reject"

\* Mutant: the guard looks at the header only, not at the table.
SessionRequestRejected_HeaderOnly(table, sessionId) == ~Truthy(sessionId)

\* The guard of handleSessionRequest: TRUE when the request is rejected.
SessionRequestRejected(table, sessionId) ==
  ~Truthy(sessionId) \/ ~TableIndexTruthy(table, sessionId)

\* Mutant: a generator that can return a value it has returned before.
randomUUID_Repeats(alreadyIssued) == Ids

\* sessionIdGenerator: () => randomUUID().  A version-4 UUID from the
\* system CSPRNG: a value this process has not produced before.  The values
\* are interchangeable, so they are named in the order they are drawn.
randomUUID(alreadyIssued) ==
  {Id(i) : i \in {j \in 1..MaxTransports :
                    /\ Id(j) \notin alreadyIssued
                    /\ \A k \in 1..(j - 1) : Id(k) \in alreadyIssued}}

\* Mutant: the callback stores under the handler's own `sessionId` (the
\* header value, undefined in this branch) instead of its parameter.
onsessioninitialized_OuterSessionId(table, sessionId, transport) ==
  [k \in DOMAIN table \cup {NoHeader} |->
     IF k = NoHeader THEN transport ELSE table[k]]

\* Mutant: the callback stores the transport under a freshly generated key
\* instead of the session id it was called with.
onsessioninitialized_OtherKey(table, sessionId, transport) ==
  [k \in DOMAIN table \cup {CHOOSE i \in Ids : i # sessionId} |->
     IF k = (CHOOSE i \in Ids : i # sessionId) THEN transport ELSE table[k]]

\* Mutant: the callback replaces the table by one holding the new entry only.
onsessioninitialized_ReplacesTable(table, sessionId, transport) ==
  [k \in {sessionId} |-> transport]

\* onsessioninitialized: this.transports[sessionId] = transport
onsessioninitialized(table, sessionId, transport) ==
  [k \in DOMAIN table \cup {sessionId} |->
     IF k = sessionId THEN transport ELSE table[k]]

\* Mutant: a teardown hook whose filter is inverted: it keeps its own entry
\* and drops the others.
onclose_DropsOthers(table, sessionId) ==
  [k \in DOMAIN table \cap {sessionId} |-> table[k]]

\* Mutant: a teardown hook that resets the whole table.
onclose_ClearsTable(table, sessionId) == << >>

\* Mutant: a teardown hook that deletes nothing.
onclose_KeepsEntry(table, sessionId) == table

\* transport.onclose: if (transport.sessionId) delete this.transports[...]
onclose(table, sessionId) ==
  IF sessionId # NoSessionId
  THEN [k \in DOMAIN table \ {sessionId} |-> table[k]]
  ELSE table

\* ---------------------------------------------------------------- strings
\* A JavaScript string is the sequence of its characters; the fixed parts of
\* a template literal are single elements.  `undefined` is a value of its
\* own.
Undefined == <<"<undefined>">>
EmptyString == << >>
\* Truthiness of a value that is a string or undefined.
TruthyString(v) == v # Undefined /\ v # EmptyString

\* ---------------------------------------------------------- configuration
\* Keys the panel may have issued to the operator.
ApiKeys == {<<"k">>}
\* process.env.MCSMANAGER_API_KEY after dotenv.config(): unset, empty, a key.
EnvValues == {Undefined, EmptyString} \cup ApiKeys
\* defaultConfig: apiKey: process.env.MCSMANAGER_API_KEY || ""
defaultConfig(env) ==
  [apiKey |-> IF TruthyString(env) THEN env ELSE EmptyString]
\* getConfig: return {...defaultConfig}
getConfig(env) == defaultConfig(env)

\* Mutant: main starts the server whatever the credential is.
ApiKeyMissing_Never(config) == FALSE

\* main: if (!config.apiKey)
ApiKeyMissing(config) == ~TruthyString(config.apiKey)

\* ------------------------------------------------------------ invocations
\* Arguments of a tool call that the call does not carry.
NoArgs ==
  [daemonId |-> Undefined, instanceId |-> Undefined, path |-> Undefined,
   filePath |-> Undefined, command |-> Undefined, content |-> Undefined]

\* ------------------------------------------------- the Upstream Client
\* Longest string argument a caller passes.
MaxLen == 2
\* Characters of a string argument: an ordinary one, and two that have a
\* meaning in a URL.
Chars == {"a", "#", "&"}
Strings == UNION {[1..n -> Chars] : n \in 0..MaxLen}

\* encodeURIComponent: ordinary characters stay, the others are escaped.
encodeURIComponent(s) ==
  [i \in 1..Len(s) |-> IF s[i] = "#" THEN "%23"
                       ELSE IF s[i] = "&" THEN "%26"
                       ELSE s[i]]

\* The request body of a call: the members it carries, undefined otherwise.
NoData ==
  [instanceUuid |-> Undefined, daemonId |-> Undefined, target |-> Undefined,
   text |-> Undefined]
Request(method, url, data) == [method |-> method, url |-> url, data |-> data]

\* `name=${value}` inside a URL template; the value is not encoded.
Param(name, value) == <<name, "=">> \o value
\* Mutant: a URL template that leaves the credential out.
ApiKeyParam_Omitted(apiKey) == <<"page", "=", "1">>
\* `apikey=${this.apiKey}`
ApiKeyParam(apiKey) == Param("apikey", apiKey)

\* The methods of MCSManagerAPI: the one request each of them issues.
getDaemons(apiKey) ==
  Request("GET", <<"/api/service/remote_services_system", "?">>
                   \o ApiKeyParam(apiKey), NoData)
getInstances(apiKey, daemonId) ==
  Request("GET", <<"/api/service/remote_service_instances", "?">>
                   \o Param("daemonId", daemonId)
                   \o <<"&">> \o Param("page", <<"1">>)
                   \o <<"&">> \o Param("page_size", <<"10">>)
                   \o <<"&">> \o ApiKeyParam(apiKey)
                   \o <<"&", "instance_name", "=", "&", "status", "=",
                        "&", "tag", "=", "[]">>, NoData)
getInstanceDetail(apiKey, instanceUuid, daemonId) ==
  Request("GET", <<"/api/instance", "?">>
                   \o Param("uuid", instanceUuid)
                   \o <<"&">> \o Param("daemonId", daemonId)
                   \o <<"&">> \o ApiKeyParam(apiKey), NoData)
startInstance(apiKey, instanceUuid, daemonId) ==
  Request("POST", <<"/api/instance/multi_start", "?">> \o ApiKeyParam(apiKey),
          [NoData EXCEPT !.instanceUuid = instanceUuid, !.daemonId = daemonId])
stopInstance(apiKey, instanceUuid, daemonId) ==
  Request("POST", <<"/api/instance/multi_stop", "?">> \o ApiKeyParam(apiKey),
          [NoData EXCEPT !.instanceUuid = instanceUuid, !.daemonId = daemonId])
restartInstance(apiKey, instanceUuid, daemonId) ==
  Request("POST", <<"/api/instance/multi_restart", "?">>
                    \o ApiKeyParam(apiKey),
          [NoData EXCEPT !.instanceUuid = instanceUuid, !.daemonId = daemonId])
killInstance(apiKey, instanceUuid, daemonId) ==
  Request("POST", <<"/api/instance/multi_kill", "?">> \o ApiKeyParam(apiKey),
          [NoData EXCEPT !.instanceUuid = instanceUuid, !.daemonId = daemonId])
sendCommand(apiKey, instanceUuid, daemonId, command) ==
  Request("GET", <<"/api/protected_instance/command", "?">>
                   \o Param("uuid", instanceUuid)
                   \o <<"&">> \o Param("daemonId", daemonId)
                   \o <<"&">> \o Param("command", encodeURIComponent(command))
                   \o <<"&">> \o ApiKeyParam(apiKey), NoData)
getFileList(apiKey, instanceUuid, daemonId, target) ==
  Request("GET", <<"/api/files/list", "?">>
                   \o Param("uuid", instanceUuid)
                   \o <<"&">> \o Param("daemonId", daemonId)
                   \o <<"&">> \o Param("target", encodeURIComponent(target))
                   \o <<"&">> \o Param("page", <<"0">>)
                   \o <<"&">> \o Param("page_size", <<"100">>)
                   \o <<"&">> \o ApiKeyParam(apiKey), NoData)
getFileContent(apiKey, instanceUuid, daemonId, target) ==
  Request("PUT", <<"/api/files/", "?">>
                   \o Param("uuid", instanceUuid)
                   \o <<"&">> \o Param("daemonId", daemonId)
                   \o <<"&">> \o ApiKeyParam(apiKey),
          [NoData EXCEPT !.target = target])
updateFileContent(apiKey, instanceUuid, daemonId, target, text) ==
  Request("PUT", <<"/api/files/", "?">>
                   \o Param("uuid", instanceUuid)
                   \o <<"&">> \o Param("daemonId", daemonId)
                   \o <<"&">> \o ApiKeyParam(apiKey),
          [NoData EXCEPT !.target = target, !.text = text])
getUsers(apiKey) ==
  Request("GET", <<"/api/auth/list", "?">>
                   \o Param("page", <<"1">>)
                   \o <<"&">> \o Param("page_size", <<"20">>)
                   \o <<"&">> \o ApiKeyParam(apiKey), NoData)
getOverview(apiKey) ==
  Request("GET", <<"/api/overview", "?">> \o ApiKeyParam(apiKey), NoData)

\* What the HTTP client sends for a URL: the part after the first "#" is a
\* fragment and stays behind; the query is what follows the first "?".
IndexOf(s, c) ==
  IF \E i \in 1..Len(s) : s[i] = c
  THEN CHOOSE i \in 1..Len(s) : s[i] = c /\ \A j \in 1..(i - 1) : s[j] # c
  ELSE 0
Before(s, c) == IF IndexOf(s, c) = 0 THEN s ELSE SubSeq(s, 1, IndexOf(s, c) - 1)
After(s, c) ==
  IF IndexOf(s, c) = 0 THEN << >> ELSE SubSeq(s, IndexOf(s, c) + 1, Len(s))
SentQuery(url) == After(Before(url, "#"), "?")
RECURSIVE Split(_, _)
Split(s, c) ==
  IF IndexOf(s, c) = 0 THEN <<s>> ELSE <<Before(s, c)>> \o Split(After(s, c), c)
\* The query parameters the panel receives: name and value of each.
QueryParams(url) ==
  LET parts == Split(SentQuery(url), "&")
  IN  {<<Before(parts[i], "=")>> \o <<After(parts[i], "=")>> :
         i \in 1..Len(parts)}
\* The request carries `apiKey` as its apikey query parameter.
CarriesApiKey(request, apiKey) ==
  <<<<"apikey">>, apiKey>> \in QueryParams(request.url)

\* ------------------------------------------------------ the panel's reply
\* `data` of a reply body: absent, a string, an object with the members the
\* handler reads (its file items kept, as their raw type codes), an object
\* without them.
UndefinedData == [kind |-> "undefined", text |-> << >>, items |-> << >>]
StringData(s) == [kind |-> "string", text |-> s, items |-> << >>]
ObjectData(items) == [kind |-> "object", text |-> << >>, items |-> items]
BareObject == [kind |-> "bare", text |-> << >>, items |-> << >>]
\* `status` of a reply body, as it prints in a template literal.
StatusOK == <<"200">>
StatusFailed == <<"500">>
\* An HTTP reply: its status code (0: no reply, the connection failed) and
\* its decoded body.
HttpReply(http, status, data) ==
  [http |-> http, body |-> [status |-> status, data |-> data]]
NoReply == HttpReply(0, Undefined, UndefinedData)

\* Files a listing may hold, and the raw type codes of the panel.
MaxFiles == 2
FileTypeCodes == {0, 1, 2}
FileLists == UNION {[1..n -> FileTypeCodes] : n \in 0..MaxFiles}

\* axios: a reply outside 2xx, or no reply, rejects the call's promise.
AxiosRejects(reply) == reply.http \notin 200..299
AxiosErrorMessage(reply) ==
  IF reply.http = 0 THEN <<"connect ECONNREFUSED">>
  ELSE <<"Request failed with status code ", ToString(reply.http)>>

\* Mutant: a client method that sends the request again after a failure.
ClientCall_Retries(request, reply) ==
  [requests |-> IF AxiosRejects(reply) THEN <<request, request>>
                ELSE <<request>>,
   threw |-> AxiosRejects(reply),
   message |-> AxiosErrorMessage(reply),
   value |-> reply.body]

\* A method of MCSManagerAPI: `const response = await this.client.get(...)`
\* (or post, put), once, then `return response.data`.
ClientCall(request, reply) ==
  [requests |-> <<request>>,
   threw |-> AxiosRejects(reply),
   message |-> AxiosErrorMessage(reply),
   value |-> reply.body]

\* ------------------------------------------------------ the tool handlers
\* A tool result: content: [{type: "text", text}], with or without isError.
\* `text` is a string, or what the handler put there instead.
ObjectValue == <<"<object>">>
IsString(v) == v # Undefined /\ v # ObjectValue
Block(isError, text, files) ==
  [kind |-> "block", isError |-> isError, text |-> text, files |-> files]
\* The registry refused the arguments (they fail the tool's schema); the
\* handler did not run.
InvalidParams ==
  [kind |-> "invalid-params", isError |-> FALSE, text |-> << >>,
   files |-> << >>]
\* text: JSON.stringify(projection, null, 2)
JsonText == <<"{json}">>

\* The try block up to the status test: the call, then
\* `if (response.status !== 200) throw new Error(`${failed}: ${status}`)`.
\* A handler that throws before the call issues no request.
Threw(message) ==
  [requests |-> << >>, threw |-> TRUE, message |-> message,
   value |-> NoReply.body]
Checked(call, failed) ==
  IF ~call.threw /\ call.value.status # StatusOK
  THEN [call EXCEPT !.threw = TRUE,
                    !.message = <<failed>> \o call.value.status]
  ELSE call
\* The catch block: `${prefix}${error.message}`, isError: true.
Caught(prefix, call) == Block(TRUE, <<prefix>> \o call.message, << >>)
\* A projection that reads members of `data` throws a TypeError when they
\* are not there.
Projected(call) ==
  IF ~call.threw /\ call.value.data.kind # "object"
  THEN [call EXCEPT !.threw = TRUE,
                    !.message = <<"Cannot read properties of undefined">>]
  ELSE call
\* `type: file.type === 0 ? "directory" : "file"`
FileType(code) == IF code = 0 THEN "directory" ELSE "file"
\* text: response.data
DataAsText(data) ==
  IF data.kind = "string" THEN data.text
  ELSE IF data.kind = "undefined" THEN Undefined
  ELSE ObjectValue

Finished(call, result) == [requests |-> call.requests, result |-> result]

GetDaemonsTool(api, args, reply) ==
  LET call == Projected(Checked(ClientCall(getOverview(api), reply),
                                "Failed to get daemons: "))
  IN  Finished(call, IF call.threw THEN Caught("Error fetching daemons: ", call)
                     ELSE Block(FALSE, JsonText, << >>))

GetInstancesTool(api, args, reply) ==
  LET call == Projected(Checked(
                ClientCall(getInstances(api, args.daemonId), reply),
                "Failed to get instances: "))
  IN  Finished(call,
               IF call.threw THEN Caught("Error fetching instances: ", call)
               ELSE Block(FALSE, JsonText, << >>))

GetInstanceDetailTool(api, args, reply) ==
  LET call == Projected(Checked(
                ClientCall(getInstanceDetail(api, args.instanceId,
                                             args.daemonId), reply),
                "Failed to get instance details: "))
  IN  Finished(call,
               IF call.threw
               THEN Caught("Error fetching instance details: ", call)
               ELSE Block(FALSE, JsonText, << >>))

\* Mutant: a projection that tells directories by a non-zero type code.
GetFilesTool_TypeInverted(api, args, reply) ==
  LET targetPath == IF TruthyString(args.path) THEN args.path ELSE EmptyString
      call == Projected(Checked(
                ClientCall(getFileList(api, args.instanceId, args.daemonId,
                                       targetPath), reply),
                "Failed to get file list: "))
  IN  Finished(call,
               IF call.threw THEN Caught("Error fetching files: ", call)
               ELSE Block(FALSE, JsonText,
                          [i \in 1..Len(call.value.data.items) |->
                             IF call.value.data.items[i] # 0 THEN "directory"
                             ELSE "file"]))

GetFilesTool(api, args, reply) ==
  LET targetPath == IF TruthyString(args.path) THEN args.path ELSE EmptyString
      call == Projected(Checked(
                ClientCall(getFileList(api, args.instanceId, args.daemonId,
                                       targetPath), reply),
                "Failed to get file list: "))
  IN  Finished(call,
               IF call.threw THEN Caught("Error fetching files: ", call)
               ELSE Block(FALSE, JsonText,
                          [i \in 1..Len(call.value.data.items) |->
                             FileType(call.value.data.items[i])]))

GetFileContentTool(api, args, reply) ==
  LET call == IF ~TruthyString(args.filePath)
              THEN Threw(<<"File path is required">>)
              ELSE Checked(ClientCall(getFileContent(api, args.instanceId,
                                        args.daemonId, args.filePath), reply),
                           "Failed to get file content: ")
  IN  Finished(call,
               IF call.threw
               THEN Caught("Error fetching file content: ", call)
               ELSE Block(FALSE, DataAsText(call.value.data), << >>))

GetOverviewTool(api, args, reply) ==
  LET call == Projected(Checked(ClientCall(getOverview(api), reply),
                                "Failed to get overview: "))
  IN  Finished(call,
               IF call.threw THEN Caught("Error fetching overview: ", call)
               ELSE Block(FALSE, JsonText, << >>))

\* Mutant: a success text that names the daemon instead of the instance.
StartInstanceTool_NamesDaemon(api, args, reply) ==
  LET call == Checked(ClientCall(startInstance(api, args.instanceId,
                                               args.daemonId), reply),
                      "Failed to start instance: ")
  IN  Finished(call,
               IF call.threw THEN Caught("Error starting instance: ", call)
               ELSE Block(FALSE, <<"Successfully started instance ">>
                                   \o args.daemonId, << >>))

\* Mutant: a handler that reports success whatever became of the call.
StartInstanceTool_IgnoresFailure(api, args, reply) ==
  LET call == ClientCall(startInstance(api, args.instanceId, args.daemonId),
                         reply)
  IN  Finished(call,
               Block(FALSE, <<"Successfully started instance ">>
                              \o args.instanceId, << >>))

StartInstanceTool(api, args, reply) ==
  LET call == Checked(ClientCall(startInstance(api, args.instanceId,
                                               args.daemonId), reply),
                      "Failed to start instance: ")
  IN  Finished(call,
               IF call.threw THEN Caught("Error starting instance: ", call)
               ELSE Block(FALSE, <<"Successfully started instance ">>
                                   \o args.instanceId, << >>))

StopInstanceTool(api, args, reply) ==
  LET call == Checked(ClientCall(stopInstance(api, args.instanceId,
                                              args.daemonId), reply),
                      "Failed to stop instance: ")
  IN  Finished(call,
               IF call.threw THEN Caught("Error stopping instance: ", call)
               ELSE Block(FALSE, <<"Successfully stopped instance ">>
                                   \o args.instanceId, << >>))

RestartInstanceTool(api, args, reply) ==
  LET call == Checked(ClientCall(restartInstance(api, args.instanceId,
                                                 args.daemonId), reply),
                      "Failed to restart instance: ")
  IN  Finished(call,
               IF call.threw THEN Caught("Error restarting instance: ", call)
               ELSE Block(FALSE, <<"Successfully restarted instance ">>
                                   \o args.instanceId, << >>))

KillInstanceTool(api, args, reply) ==
  LET call == Checked(ClientCall(killInstance(api, args.instanceId,
                                              args.daemonId), reply),
                      "Failed to kill instance: ")
  IN  Finished(call,
               IF call.threw THEN Caught("Error killing instance: ", call)
               ELSE Block(FALSE, <<"Successfully killed instance ">>
                                   \o args.instanceId, << >>))

SendCommandTool(api, args, reply) ==
  LET call == Checked(ClientCall(sendCommand(api, args.instanceId,
                                   args.daemonId, args.command), reply),
                      "Failed to send command: ")
  IN  Finished(call,
               IF call.threw THEN Caught("Error sending command: ", call)
               ELSE Block(FALSE, <<"Successfully sent command \"">>
                                   \o args.command
                                   \o <<"\" to instance ">>
                                   \o args.instanceId, << >>))

UpdateFileTool(api, args, reply) ==
  LET call == Checked(ClientCall(updateFileContent(api, args.instanceId,
                                   args.daemonId, args.filePath,
                                   args.content), reply),
                      "Failed to update file: ")
  IN  Finished(call,
               IF call.threw THEN Caught("Error updating file: ", call)
               ELSE Block(FALSE, <<"Successfully updated file ">>
                                   \o args.filePath, << >>))

\* registerTools: the twelve tools and the handler of each.
Tools ==
  {"get-daemons", "get-instances", "get-instance-detail", "get-files",
   "get-file-content", "get-overview", "start-instance", "stop-instance",
   "restart-instance", "kill-instance", "send-command", "update-file"}
ToolHandler(tool, api, args, reply) ==
  CASE tool = "get-daemons" -> GetDaemonsTool(api, args, reply)
    [] tool = "get-instances" -> GetInstancesTool(api, args, reply)
    [] tool = "get-instance-detail" -> GetInstanceDetailTool(api, args, reply)
    [] tool = "get-files" -> GetFilesTool(api, args, reply)
    [] tool = "get-file-content" -> GetFileContentTool(api, args, reply)
    [] tool = "get-overview" -> GetOverviewTool(api, args, reply)
    [] tool = "start-instance" -> StartInstanceTool(api, args, reply)
    [] tool = "stop-instance" -> StopInstanceTool(api, args, reply)
    [] tool = "restart-instance" -> RestartInstanceTool(api, args, reply)
    [] tool = "kill-instance" -> KillInstanceTool(api, args, reply)
    [] tool = "send-command" -> SendCommandTool(api, args, reply)
    [] tool = "update-file" -> UpdateFileTool(api, args, reply)

\* The schema of each tool: the arguments it names; all are z.string(),
\* and only `path` of get-files is optional.
ToolParams(tool) ==
  CASE tool \in {"get-daemons", "get-overview"} -> {}
    [] tool = "get-instances" -> {"daemonId"}
    [] tool = "get-files" -> {"daemonId", "instanceId", "path"}
    [] tool = "get-file-content" -> {"daemonId", "instanceId", "filePath"}
    [] tool = "send-command" -> {"daemonId", "instanceId", "command"}
    [] tool = "update-file" ->
         {"daemonId", "instanceId", "filePath", "content"}
    [] OTHER -> {"daemonId", "instanceId"}
RequiredParams(tool) == ToolParams(tool) \ {"path"}
SchemaAccepts(tool, args) ==
  \A p \in RequiredParams(tool) : args[p] # Undefined

\* Arguments a client sends: the id of a daemon and of an instance, a
\* command, a content; and for a path or a file path nothing, the empty
\* string or a string.
DaemonId == <<"d">>
InstanceId == <<"i">>
PathValues == {Undefined, EmptyString, <<"a">>}
ToolArgs(tool) ==
  {[p \in DOMAIN NoArgs |->
      IF p \notin ToolParams(tool) THEN Undefined
      ELSE IF p = "daemonId" THEN DaemonId
      ELSE IF p = "instanceId" THEN InstanceId
      ELSE IF p \in {"path", "filePath"} THEN v
      ELSE <<"a">>] : v \in PathValues}

\* Replies of the panel to the request of a tool: a body with status 200
\* and any data, a body that reports a failure, a body without status, an
\* HTTP 500, no reply at all.
DataValues(tool) ==
  {UndefinedData, StringData(<<"a">>), BareObject}
    \cup {ObjectData(items) :
            items \in IF tool = "get-files" THEN FileLists ELSE {<< >>}}
Replies(tool) ==
  {HttpReply(200, StatusOK, data) : data \in DataValues(tool)}
    \cup {HttpReply(200, StatusFailed, UndefinedData),
          HttpReply(200, Undefined, UndefinedData),
          HttpReply(500, StatusFailed, UndefinedData),
          NoReply}

\* No handler ran, so there is no tool result.
NoResult ==
  [kind |-> "none", isError |-> FALSE, text |-> << >>, files |-> << >>]
\* The step ran no tool handler and no Upstream Client method.
NoInvocation ==
  [tool |-> "<none>", args |-> NoArgs, reply |-> NoReply,
   requests |-> << >>, result |-> NoResult]

\* ------------------------------------------------------------------ state
VARIABLES
  transports,   \* the Session Table: own keys of this.transports
  nTransports,  \* transports constructed so far (transport t is 1..n)
  sessionIdOf,  \* transport.sessionId of each transport
  connected,    \* transports handed to this.server.connect
  inflight,     \* the bag of exchanges suspended at an await
  issued,       \* session ids generated so far in this run
  tornDown,     \* session ids whose teardown hook has run
  last,         \* the step just taken: the exchange and its outcome
  proc,         \* the process: its phase, config.apiKey, its exit code
  invocation,   \* the tool or client call run by the step just taken
  serverTransport  \* the transport the registry (this.server) holds

vars == <<transports, nTransports, sessionIdOf, connected,
          inflight, issued, tornDown, last, proc, invocation,
          serverTransport>>

Event(act, verb, header, body, wellFormed, transport, resp) ==
  [act |-> act, verb |-> verb, header |-> header, body |-> body,
   wellFormed |-> wellFormed, transport |-> transport, resp |-> resp]

Init ==
  /\ transports = << >>
  /\ nTransports = 0
  /\ sessionIdOf = [t \in Transports |-> NoSessionId]
  /\ connected = {}
  /\ inflight = EmptyBag
  /\ issued = {}
  /\ tornDown = {}
  /\ last = Event("start", "", NoHeader, NoBody, TRUE, NoTransport, NoResponse)
  /\ \E env \in EnvValues :
       proc = [phase |-> "main", apiKey |-> getConfig(env).apiKey,
               exitCode |-> 0]
  /\ invocation = NoInvocation
  /\ serverTransport = NoTransport

\* ---------------------------------------------------------------- start-up
\* A step of main: no request is being handled and no tool runs.
StartupEvent(act) ==
  Event(act, "", NoHeader, NoBody, TRUE, NoTransport, NoResponse)
StartupStep ==
  /\ invocation' = NoInvocation
  /\ UNCHANGED <<transports, nTransports, sessionIdOf, connected, inflight,
                 issued, tornDown, serverTransport>>

\* main: the credential is missing: console.error, process.exit(1).
MainExits ==
  /\ proc.phase = "main"
  /\ ApiKeyMissing(proc)
  /\ proc' = [proc EXCEPT !.phase = "exited", !.exitCode = 1]
  /\ last' = StartupEvent("MainExits")
  /\ StartupStep

\* main: new MCSManagerMCPServer(config), then server.start() up to the
\* call of this.app.listen: the routes are registered, the listener is not
\* bound yet.
MainStarts ==
  /\ proc.phase = "main"
  /\ ~ApiKeyMissing(proc)
  /\ proc' = [proc EXCEPT !.phase = "starting"]
  /\ last' = StartupEvent("MainStarts")
  /\ StartupStep

\* The callback of this.app.listen: the listener is bound, start() resolves.
Listening ==
  /\ proc.phase = "starting"
  /\ proc' = [proc EXCEPT !.phase = "listening"]
  /\ last' = StartupEvent("Listening")
  /\ StartupStep

\* The listener cannot be bound (the port is taken): the error event of the
\* listener has no handler and ends the process.
ListenFails ==
  /\ proc.phase = "starting"
  /\ proc' = [proc EXCEPT !.phase = "exited", !.exitCode = 1]
  /\ last' = StartupEvent("ListenFails")
  /\ StartupStep

\* this.server is the one McpServer of the process.  server.connect(transport)
\* makes `transport` the transport the registry sends on: it holds one, the
\* one connected last.
connect(current, transport) == transport
\* connect also chains the registry's own close handler behind the
\* transport's onclose: when a connected transport signals closure, the
\* registry lets go of the transport it holds.
ProtocolOnClose(current, transport) == NoTransport
\* The registry sends the answer to a request on the transport it holds. An
\* exchange that came in on another transport gets no answer.
Unanswered ==
  [status |-> 0, type |-> "lost", code |-> 0,
   message |-> "No connection established for request ID", id |-> ""]
Delivered(held, transport, answer) ==
  IF held = transport THEN answer ELSE Unanswered

\* A step of the router: the listener is bound and stays bound; the router
\* itself runs no tool handler.
RouterStep ==
  /\ proc.phase = "listening"
  /\ UNCHANGED proc
  /\ invocation' = NoInvocation

\* Room for one more suspended exchange.
CanSuspend == BagCardinality(inflight) < MaxInFlight
Suspend(pc, verb, header, body, wellFormed, transport) ==
  [pc |-> pc, verb |-> verb, header |-> header, body |-> body,
   wellFormed |-> wellFormed, transport |-> transport]

\* ------------------------------------------- the transport (MCP SDK)
\* What StreamableHTTPServerTransport.handleRequest does with an exchange
\* the router handed to it, as far as the router's callbacks are concerned.
\* Its answer: an exchange that fails the transport's validation is refused;
\* an initialize request is accepted once per transport; anything else must
\* carry the transport's own session id.
TransportHandles(t, verb, header, body, wellFormed) ==
  IF ~wellFormed THEN TransportError("Invalid Request")
  ELSE IF verb = "POST" /\ body = "initialize"
  THEN IF sessionIdOf[t] = NoSessionId THEN TransportAnswer("initialized")
       ELSE TransportError("Invalid Request: Server already initialized")
  ELSE IF sessionIdOf[t] = NoSessionId
  THEN TransportError("Bad Request: Server not initialized")
  ELSE IF sessionIdOf[t] # header
  THEN TransportError("Session not found")
  ELSE IF verb = "DELETE" THEN TransportAnswer("closed")
  ELSE TransportAnswer("served")

\* ---------------------------------------------------------- POST /mcp
\* Inputs of one POST exchange.  wellFormed: whether the exchange passes the
\* transport's own validation (Accept/Content-Type headers, JSON-RPC shape);
\* the router does not look at it.
PostInputs ==
  {<<h, b, w>> \in Headers \X Bodies \X BOOLEAN : b # "initialize" => w}

\* Mutant: a reuse branch that drops the session when its transport answers
\* the request with an error.
PostReuse_EvictsOnError(h, b, w) ==
  /\ RouterStep
  /\ UNCHANGED serverTransport
  /\ PostBranch(transports, h, b) = "reuse"
  /\ h \in DOMAIN transports
  /\ last' = Event("PostReuse", "POST", h, b, w, transports[h],
                   TransportHandles(transports[h], "POST", h, b, w))
  /\ transports' =
       IF TransportHandles(transports[h], "POST", h, b, w).status # 200
       THEN [k \in DOMAIN transports \ {h} |-> transports[k]]
       ELSE transports
  /\ UNCHANGED <<nTransports, sessionIdOf, connected, inflight, issued,
                 tornDown>>

\* Mutant: a reuse branch whose `transport` is shared between invocations of
\* the handler, so that the request is handed to the transport constructed
\* last instead of the one just looked up.
PostReuse_SharedTransport(h, b, w) ==
  /\ RouterStep
  /\ UNCHANGED serverTransport
  /\ PostBranch(transports, h, b) = "reuse"
  /\ h \in DOMAIN transports
  /\ last' = Event("PostReuse", "POST", h, b, w, nTransports,
                   TransportHandles(nTransports, "POST", h, b, w))
  /\ UNCHANGED <<transports, nTransports, sessionIdOf, connected, inflight,
                 issued, tornDown>>

\* Reuse branch, own key: transport = this.transports[sessionId], then
\* transport.handleRequest(req, res, req.body) with no await in between.
\* The transport answers the exchange; none of the router's callbacks runs.
PostReuse(h, b, w) ==
  /\ RouterStep
  /\ UNCHANGED serverTransport
  /\ PostBranch(transports, h, b) = "reuse"
  /\ h \in DOMAIN transports
  /\ last' = Event("PostReuse", "POST", h, b, w, transports[h],
                   TransportHandles(transports[h], "POST", h, b, w))
  /\ UNCHANGED <<transports, nTransports, sessionIdOf, connected, inflight,
                 issued, tornDown>>

\* Reuse branch, inherited member: `transport` is not a transport and the
\* call transport.handleRequest(...) throws.
PostReuseThrows(h, b, w) ==
  /\ RouterStep
  /\ UNCHANGED serverTransport
  /\ PostBranch(transports, h, b) = "reuse"
  /\ h \notin DOMAIN transports
  /\ last' = Event("PostReuseThrows", "POST", h, b, w, NoTransport,
                   HandlerTypeError)
  /\ UNCHANGED <<transports, nTransports, sessionIdOf, connected,
                 inflight, issued, tornDown>>

\* Mutant: an initialize branch that routes the request to a transport it
\* never connected.
PostInitialize_SkipsConnect(h, b, w) ==
  /\ RouterStep
  /\ UNCHANGED serverTransport
  /\ PostBranch(transports, h, b) = "initialize"
  /\ nTransports < MaxTransports
  /\ nTransports' = nTransports + 1
  /\ CanSuspend
  /\ inflight' = inflight (+) SetToBag({Suspend("connecting", "POST", h, b, w, nTransports + 1)})
  /\ last' = Event("PostInitialize", "POST", h, b, w, nTransports + 1,
                   NoResponse)
  /\ UNCHANGED <<transports, sessionIdOf, issued, tornDown, connected>>

\* Initialize branch up to `await this.server.connect(transport)`: a new
\* transport is constructed with the two callbacks, its onclose is set and
\* it is handed to server.connect.
PostInitialize(h, b, w) ==
  /\ RouterStep
  /\ serverTransport' = connect(serverTransport, nTransports + 1)
  /\ PostBranch(transports, h, b) = "initialize"
  /\ nTransports < MaxTransports
  /\ nTransports' = nTransports + 1
  /\ connected' = connected \cup {nTransports + 1}
  /\ CanSuspend
  /\ inflight' = inflight (+) SetToBag({Suspend("connecting", "POST", h, b, w, nTransports + 1)})
  /\ last' = Event("PostInitialize", "POST", h, b, w, nTransports + 1,
                   NoResponse)
  /\ UNCHANGED <<transports, sessionIdOf, issued, tornDown>>

\* Initialize branch after the await: transport.handleRequest(req, res, body).
PostConnected(r) ==
  /\ RouterStep
  /\ UNCHANGED serverTransport
  /\ BagIn(r, inflight)
  /\ r.pc = "connecting"
  /\ inflight' = (inflight (-) SetToBag({r}))
                  (+) SetToBag({[r EXCEPT !.pc = "handling"]})
  /\ last' = Event("PostConnected", "POST", r.header,
                   r.body, r.wellFormed,
                   r.transport, NoResponse)
  /\ UNCHANGED <<transports, nTransports, sessionIdOf, connected,
                 issued, tornDown>>

\* Mutant: a reject branch that also drops the sessions it finds.
PostReject_EvictsSessions(h, b, w) ==
  /\ RouterStep
  /\ UNCHANGED serverTransport
  /\ PostBranch(transports, h, b) = "reject"
  /\ last' = Event("PostReject", "POST", h, b, w, NoTransport,
                   BadRequestNoSession)
  /\ transports' = << >>
  /\ UNCHANGED <<nTransports, sessionIdOf, connected, inflight, issued,
                 tornDown>>

\* A POST whose body is not decodable JSON: this.app.use(express.json())
\* answers it before the POST handler runs, whatever its session header.
JsonDecodeFails(h) ==
  /\ RouterStep
  /\ last' = Event("JsonDecodeFails", "POST", h, NoBody, FALSE, NoTransport,
                   BodyDecodeError)
  /\ UNCHANGED <<transports, nTransports, sessionIdOf, connected,
                 inflight, issued, tornDown, serverTransport>>

\* Reject branch: the fixed 400 answer, then return.
PostReject(h, b, w) ==
  /\ RouterStep
  /\ UNCHANGED serverTransport
  /\ PostBranch(transports, h, b) = "reject"
  /\ last' = Event("PostReject", "POST", h, b, w, NoTransport,
                   BadRequestNoSession)
  /\ UNCHANGED <<transports, nTransports, sessionIdOf, connected,
                 inflight, issued, tornDown>>

\* ------------------------------------------- GET /mcp and DELETE /mcp
SessionVerbs == {"GET", "DELETE"}

\* handleSessionRequest, guard true: 400 plain text, then return.
SessionRequestReject(v, h) ==
  /\ RouterStep
  /\ UNCHANGED serverTransport
  /\ SessionRequestRejected(transports, h)
  /\ last' = Event("SessionRequestReject", v, h, NoBody, TRUE, NoTransport,
                   InvalidSession)
  /\ UNCHANGED <<transports, nTransports, sessionIdOf, connected,
                 inflight, issued, tornDown>>

\* handleSessionRequest, own key: transport.handleRequest(req, res).  A GET
\* is answered by the transport; a DELETE makes the transport close itself,
\* which is a later step of the transport.
SessionRequestRoute(v, h) ==
  /\ RouterStep
  /\ UNCHANGED serverTransport
  /\ ~SessionRequestRejected(transports, h)
  /\ h \in DOMAIN transports
  /\ IF v = "DELETE"
     THEN /\ CanSuspend
          /\ inflight' = inflight (+) SetToBag({Suspend("handling", v, h,
                                         NoBody, TRUE, transports[h])})
          /\ last' = Event("SessionRequestRoute", v, h, NoBody, TRUE,
                           transports[h], NoResponse)
     ELSE /\ inflight' = inflight
          /\ last' = Event("SessionRequestRoute", v, h, NoBody, TRUE,
                           transports[h],
                           TransportHandles(transports[h], v, h, NoBody, TRUE))
  /\ UNCHANGED <<transports, nTransports, sessionIdOf, connected, issued,
                 tornDown>>

\* handleSessionRequest, inherited member: the call throws.
SessionRequestThrows(v, h) ==
  /\ RouterStep
  /\ UNCHANGED serverTransport
  /\ ~SessionRequestRejected(transports, h)
  /\ h \notin DOMAIN transports
  /\ last' = Event("SessionRequestThrows", v, h, NoBody, TRUE, NoTransport,
                   HandlerTypeError)
  /\ UNCHANGED <<transports, nTransports, sessionIdOf, connected,
                 inflight, issued, tornDown>>

\* ------------------------------------- the transport's later steps
TornDownAfter(t) ==
  IF sessionIdOf[t] # NoSessionId THEN tornDown \cup {sessionIdOf[t]}
  ELSE tornDown

\* An initialize request on a transport that has no session yet: the
\* transport calls sessionIdGenerator, stores the id as transport.sessionId
\* and calls onsessioninitialized with it.
TransportInitialize(r) ==
  /\ RouterStep
  /\ UNCHANGED serverTransport
  /\ BagIn(r, inflight)
  /\ r.pc = "handling"
  /\ r.verb = "POST"
  /\ TransportHandles(r.transport, r.verb, r.header, r.body, r.wellFormed)
       = TransportAnswer("initialized")
  /\ \E id \in randomUUID(issued) :
       /\ issued' = issued \cup {id}
       /\ sessionIdOf' = [sessionIdOf EXCEPT ![r.transport] = id]
       /\ transports' = onsessioninitialized(transports, id,
                                             r.transport)
       /\ last' = Event("TransportInitialize", "POST", r.header,
                        "initialize", TRUE, r.transport,
                        TransportAnswer(id))
  /\ inflight' = inflight (-) SetToBag({r})
  /\ UNCHANGED <<nTransports, connected, tornDown>>

\* The transport refuses an initialize request that fails its validation.
TransportRefuses(r) ==
  /\ RouterStep
  /\ UNCHANGED serverTransport
  /\ BagIn(r, inflight)
  /\ r.pc = "handling"
  /\ r.verb = "POST"
  /\ TransportHandles(r.transport, r.verb, r.header, r.body, r.wellFormed).status
       # 200
  /\ last' = Event("TransportRefuses", r.verb, r.header, r.body, r.wellFormed,
                   r.transport,
                   TransportHandles(r.transport, r.verb, r.header, r.body,
                                    r.wellFormed))
  /\ inflight' = inflight (-) SetToBag({r})
  /\ UNCHANGED <<transports, nTransports, sessionIdOf, connected, issued,
                 tornDown>>

\* A DELETE on the session's own transport: the transport closes itself,
\* which fires its onclose, the teardown hook the router installed.
TransportDelete(r) ==
  /\ RouterStep
  /\ serverTransport' = ProtocolOnClose(serverTransport, r.transport)
  /\ BagIn(r, inflight)
  /\ r.pc = "handling"
  /\ r.verb = "DELETE"
  /\ TransportHandles(r.transport, r.verb, r.header, r.body, r.wellFormed)
       = TransportAnswer("closed")
  /\ transports' = onclose(transports, sessionIdOf[r.transport])
  /\ tornDown' = TornDownAfter(r.transport)
  /\ last' = Event("TransportDelete", "DELETE", r.header, NoBody,
                   TRUE, r.transport, TransportAnswer("closed"))
  /\ inflight' = inflight (-) SetToBag({r})
  /\ UNCHANGED <<nTransports, sessionIdOf, connected, issued>>

\* The transport signals closure for another reason (the connection is
\* gone, the protocol layer closes it): the same onclose fires.
TransportClose(t) ==
  /\ RouterStep
  /\ serverTransport' = ProtocolOnClose(serverTransport, t)
  /\ t \in 1..nTransports
  /\ transports' = onclose(transports, sessionIdOf[t])
  /\ tornDown' = TornDownAfter(t)
  /\ last' = Event("TransportClose", "", sessionIdOf[t], NoBody, TRUE, t,
                   HookOutcome(transports, sessionIdOf[t]))
  /\ UNCHANGED <<nTransports, sessionIdOf, connected, inflight, issued>>

\* ------------------------------------------------------------ the registry
\* registerResources registers nothing: every resource became a tool.
RegisteredResources == {}
\* The requests of the test client on its session, after the initialization:
\* client.listResources(), client.readResource({uri}), client.listTools().
OverviewUri == "mcsm://overview"
TestClientRequests == {"resources/list", "resources/read", "tools/list"}
\* The registry's answer to a request it has no handler for, and to the
\* read of a resource it does not hold: a JSON-RPC error.
MethodNotFound ==
  [status |-> 200, type |-> "transport", code |-> -32601,
   message |-> "Method not found", id |-> ""]
ResourceNotFound ==
  [status |-> 200, type |-> "transport", code |-> -32602,
   message |-> "Resource not found", id |-> ""]
\* The registry handles the resource methods once a resource is registered.
RegistryAnswer(method) ==
  IF method = "tools/list" THEN TransportAnswer("served")
  ELSE IF RegisteredResources = {} THEN MethodNotFound
  ELSE IF method = "resources/read" /\ OverviewUri \notin RegisteredResources
  THEN ResourceNotFound
  ELSE TransportAnswer("served")

\* A request of the test client on a live session: the reuse branch hands it
\* to the session's transport and the registry answers it.
RegistryRequest(h, method) ==
  /\ RouterStep
  /\ UNCHANGED serverTransport
  /\ PostBranch(transports, h, method) = "reuse"
  /\ h \in DOMAIN transports
  /\ TransportHandles(transports[h], "POST", h, method, TRUE)
       = TransportAnswer("served")
  /\ last' = Event("RegistryRequest", "POST", h, method, TRUE, transports[h],
                   Delivered(serverTransport, transports[h],
                             RegistryAnswer(method)))
  /\ UNCHANGED <<transports, nTransports, sessionIdOf, connected, inflight,
                 issued, tornDown>>

\* ---------------------------------------------------------- specification
Next ==
  \/ MainExits
  \/ MainStarts
  \/ Listening
  \/ ListenFails
  \/ \E i \in PostInputs : PostReuse(i[1], i[2], i[3])
  \/ \E i \in PostInputs : PostReuseThrows(i[1], i[2], i[3])
  \/ \E i \in PostInputs : PostInitialize(i[1], i[2], i[3])
  \/ \E i \in PostInputs : PostReject(i[1], i[2], i[3])
  \/ \E h \in Headers : JsonDecodeFails(h)
  \/ \E r \in BagToSet(inflight) : PostConnected(r)
  \/ \E h \in Headers, method \in TestClientRequests :
       RegistryRequest(h, method)
  \/ \E v \in SessionVerbs, h \in Headers : SessionRequestReject(v, h)
  \/ \E v \in SessionVerbs, h \in Headers : SessionRequestRoute(v, h)
  \/ \E v \in SessionVerbs, h \in Headers : SessionRequestThrows(v, h)
  \/ \E r \in BagToSet(inflight) : TransportInitialize(r)
  \/ \E r \in BagToSet(inflight) : TransportRefuses(r)
  \/ \E r \in BagToSet(inflight) : TransportDelete(r)
  \/ \E t \in Transports : TransportClose(t)

Spec == Init /\ [][Next]_vars

\* The transport finishes every DELETE handed to it.
DeleteExchanges ==
  {Suspend("handling", "DELETE", id, NoBody, TRUE, t) :
     id \in Ids, t \in Transports}
Fairness == \A r \in DeleteExchanges : WF_vars(TransportDelete(r))

FairSpec == Spec /\ Fairness

\* ------------------------------------------------------------ tool calls
\* Mutant: a rejection that first asks the panel who is calling.
Dispatch_ValidatesUpstream(tool, api, args, reply) ==
  IF SchemaAccepts(tool, args) THEN ToolHandler(tool, api, args, reply)
  ELSE [requests |-> <<getUsers(api)>>, result |-> InvalidParams]

\* The registry's dispatch of a tools/call request: the arguments are held
\* against the tool's schema, and the handler runs when they pass.
Dispatch(tool, api, args, reply) ==
  IF SchemaAccepts(tool, args) THEN ToolHandler(tool, api, args, reply)
  ELSE [requests |-> << >>, result |-> InvalidParams]

\* A tools/call POST on a live session: the reuse branch hands it to the
\* session's transport, the registry dispatches it to the tool's handler,
\* the handler awaits the panel's reply and returns its result.  The
\* handlers keep no state, so the whole call is one step.
ToolCall(h, tool, args, reply) ==
  /\ proc.phase = "listening"
  /\ PostBranch(transports, h, "tools/call") = "reuse"
  /\ h \in DOMAIN transports
  /\ TransportHandles(transports[h], "POST", h, "tools/call", TRUE)
       = TransportAnswer("served")
  /\ LET run == Dispatch(tool, proc.apiKey, args, reply)
     IN  invocation' =
           [tool |-> tool, args |-> args,
            reply |-> IF run.requests = << >> THEN NoReply ELSE reply,
            requests |-> run.requests, result |-> run.result]
  /\ last' = Event("ToolCall", "POST", h, "tools/call", TRUE, transports[h],
                   Delivered(serverTransport, transports[h],
                             TransportAnswer("served")))
  /\ UNCHANGED <<proc, transports, nTransports, sessionIdOf, connected,
                 inflight, issued, tornDown, serverTransport>>

\* The server is listening and k sessions have been initialized, one after
\* the other; none has been closed and nothing is suspended.
Serving(k) ==
  /\ transports = [id \in {Id(i) : i \in 1..k} |->
                     CHOOSE t \in 1..k : Id(t) = id]
  /\ nTransports = k
  /\ sessionIdOf = [t \in Transports |-> IF t <= k THEN Id(t) ELSE NoSessionId]
  /\ connected = 1..k
  /\ inflight = EmptyBag
  /\ issued = {Id(i) : i \in 1..k}
  /\ tornDown = {}
  /\ last = IF k = 0 THEN StartupEvent("Listening")
            ELSE Event("TransportInitialize", "POST", NoHeader, "initialize",
                       TRUE, k, TransportAnswer(Id(k)))
  /\ \E key \in ApiKeys :
       proc = [phase |-> "listening", apiKey |-> key, exitCode |-> 0]
  /\ invocation = NoInvocation
  /\ serverTransport = k

\* Tool traffic on a serving process: tool calls, and the requests that
\* leave the sessions as they are.
ToolInit == \E k \in 0..MaxTransports : Serving(k)
ToolNext ==
  \/ \E h \in Headers, tool \in Tools :
       \E args \in ToolArgs(tool), reply \in Replies(tool) :
         ToolCall(h, tool, args, reply)
  \/ \E i \in PostInputs : PostReuse(i[1], i[2], i[3])
  \/ \E i \in PostInputs : PostReuseThrows(i[1], i[2], i[3])
  \/ \E i \in PostInputs : PostReject(i[1], i[2], i[3])
  \/ \E h \in Headers : SessionRequestReject("GET", h)
  \/ \E h \in Headers : SessionRequestRoute("GET", h)
  \/ \E h \in Headers : SessionRequestThrows("GET", h)
ToolSpec == ToolInit /\ [][ToolNext]_vars

\* ---------------------------------------------------------- client calls
\* The methods of MCSManagerAPI and the request each issues for arguments
\* given as a tool's are (instanceId: instanceUuid, path: target,
\* content: text).
ApiMethods ==
  {"getDaemons", "getInstances", "getInstanceDetail", "startInstance",
   "stopInstance", "restartInstance", "killInstance", "sendCommand",
   "getFileList", "getFileContent", "updateFileContent", "getUsers",
   "getOverview"}
ApiRequest(method, api, a) ==
  CASE method = "getDaemons" -> getDaemons(api)
    [] method = "getInstances" -> getInstances(api, a.daemonId)
    [] method = "getInstanceDetail" ->
         getInstanceDetail(api, a.instanceId, a.daemonId)
    [] method = "startInstance" -> startInstance(api, a.instanceId, a.daemonId)
    [] method = "stopInstance" -> stopInstance(api, a.instanceId, a.daemonId)
    [] method = "restartInstance" ->
         restartInstance(api, a.instanceId, a.daemonId)
    [] method = "killInstance" -> killInstance(api, a.instanceId, a.daemonId)
    [] method = "sendCommand" ->
         sendCommand(api, a.instanceId, a.daemonId, a.command)
    [] method = "getFileList" ->
         getFileList(api, a.instanceId, a.daemonId, a.path)
    [] method = "getFileContent" ->
         getFileContent(api, a.instanceId, a.daemonId, a.path)
    [] method = "updateFileContent" ->
         updateFileContent(api, a.instanceId, a.daemonId, a.path, a.content)
    [] method = "getUsers" -> getUsers(api)
    [] method = "getOverview" -> getOverview(api)
ApiParams(method) ==
  CASE method \in {"getDaemons", "getUsers", "getOverview"} -> {}
    [] method = "getInstances" -> {"daemonId"}
    [] method = "sendCommand" -> {"daemonId", "instanceId", "command"}
    [] method \in {"getFileList", "getFileContent"} ->
         {"daemonId", "instanceId", "path"}
    [] method = "updateFileContent" ->
         {"daemonId", "instanceId", "path", "content"}
    [] OTHER -> {"daemonId", "instanceId"}
\* Arguments a caller passes: any strings as ids, a target or command of at
\* most one character, one text.
ApiArgs(method) ==
  {[p \in DOMAIN NoArgs |->
      IF p \notin ApiParams(method) THEN Undefined
      ELSE IF p = "daemonId" THEN d
      ELSE IF p = "instanceId" THEN i
      ELSE IF p = "content" THEN <<"a">>
      ELSE t] :
     d \in IF "daemonId" \in ApiParams(method) THEN Strings ELSE {Undefined},
     i \in IF "instanceId" \in ApiParams(method) THEN Strings ELSE {Undefined},
     t \in IF ApiParams(method) \cap {"path", "command"} # {}
           THEN {x \in Strings : Len(x) <= 1} ELSE {Undefined}}
ApiReplies ==
  {HttpReply(200, StatusOK, UndefinedData),
   HttpReply(500, StatusFailed, UndefinedData), NoReply}

\* One call of a client method by code of the server, which awaits it.
ApiCall(method, a, reply) ==
  /\ proc.phase = "listening"
  /\ invocation = NoInvocation
  /\ invocation' =
       [tool |-> method, args |-> a, reply |-> reply,
        requests |-> ClientCall(ApiRequest(method, proc.apiKey, a),
                                reply).requests,
        result |-> NoResult]
  /\ last' = StartupEvent("ApiCall")
  /\ UNCHANGED <<proc, transports, nTransports, sessionIdOf, connected,
                 inflight, issued, tornDown, serverTransport>>

\* The awaited call settles and its caller goes on.
CallReturns ==
  /\ invocation # NoInvocation
  /\ invocation' = NoInvocation
  /\ last' = StartupEvent("CallReturns")
  /\ UNCHANGED <<proc, transports, nTransports, sessionIdOf, connected,
                 inflight, issued, tornDown, serverTransport>>

\* Calls of the Upstream Client on a serving process with one session:
\* each method called on its own, and the calls the tool handlers make.
ApiInit == Serving(1)
ApiNext ==
  \/ /\ invocation = NoInvocation
     /\ \E method \in ApiMethods :
          \E a \in ApiArgs(method), reply \in ApiReplies :
            ApiCall(method, a, reply)
  \/ /\ invocation = NoInvocation
     /\ \E h \in DOMAIN transports, tool \in Tools :
          \E args \in ToolArgs(tool), reply \in Replies(tool) :
            ToolCall(h, tool, args, reply)
  \/ CallReturns
ApiSpec == ApiInit /\ [][ApiNext]_vars

\* ------------------------------------------------------------ type check
TypeOK ==
  /\ DOMAIN transports \subseteq Ids
  /\ \A k \in DOMAIN transports : transports[k] \in 1..nTransports
  /\ nTransports \in 0..MaxTransports
  /\ sessionIdOf \in [Transports -> Ids \cup {NoSessionId}]
  /\ connected \subseteq Transports
  /\ issued \subseteq Ids
  /\ tornDown \subseteq Ids
  /\ proc.phase \in {"main", "starting", "listening", "exited"}
  /\ proc.apiKey \in {EmptyString} \cup ApiKeys
  /\ proc.exitCode \in {0, 1}
  /\ serverTransport \in {NoTransport} \cup 1..nTransports


\* ================================================================ claims
\* Steps in which a request arrives and the router's handler runs its
\* synchronous part.
PostArrivals == {"PostReuse", "PostReuseThrows", "PostInitialize", "PostReject"}
SessionArrivals ==
  {"SessionRequestReject", "SessionRequestRoute", "SessionRequestThrows"}
RouterRejections == {BadRequestNoSession, InvalidSession}

\* C1: a POST without session header whose body is not an initialize request
\* (another method, or no body) is answered with the fixed 400 "no valid
\* session" error in the step in which it arrives, and that step adds no
\* Session Table entry, constructs no transport and suspends nothing.
C1_NoHeaderNonInitRejected ==
  [][(/\ last'.act \in PostArrivals
      /\ last'.header = NoHeader
      /\ last'.body # "initialize")
     => /\ last'.resp = BadRequestNoSession
        /\ last'.resp.status = 400
        /\ last'.resp.code = -32000
        /\ last'.resp.id = "null"
        /\ transports' = transports
        /\ nTransports' = nTransports
        /\ inflight' = inflight]_vars

\* C1 witness: such a POST was just answered while a session is live.
C1_Witness ==
  /\ last.act = "PostReject"
  /\ last.header = NoHeader
  /\ last.body = "tools/call"
  /\ last.resp = BadRequestNoSession
  /\ DOMAIN transports # {}

\* C2 (as claimed): a POST whose session header names something that is not
\* a key of the Session Table is answered with the fixed 400 error and
\* creates no session, constructs no transport and connects nothing,
\* whatever its body.
C2_UnknownHeaderRejected ==
  [][(/\ last'.act \in PostArrivals
      /\ Truthy(last'.header)
      /\ last'.header \notin DOMAIN transports)
     => /\ last'.resp = BadRequestNoSession
        /\ transports' = transports
        /\ nTransports' = nTransports
        /\ connected' = connected]_vars


\* C3 (as claimed): every POST that took the initialize branch (no session
\* header, body method "initialize") has, once the transport has handled it,
\* a new Session Table entry under a session id never issued before.
C3_EveryInitializeCreates ==
  [][(/\ last'.act \in {"TransportInitialize", "TransportRefuses"}
      /\ last'.header = NoHeader
      /\ last'.body = "initialize")
     => /\ sessionIdOf'[last'.transport] \in DOMAIN transports'
        /\ sessionIdOf'[last'.transport] \notin DOMAIN transports
        /\ sessionIdOf'[last'.transport] \notin issued]_vars

\* C3 (amended): every POST that took the initialize branch and that the
\* transport accepts as an initialization has, once handled, a new Session
\* Table entry holding its own transport, under a session id that was never
\* issued before in this run: not a key of the table, not the id of a
\* session already torn down.
C3_AcceptedInitializeCreates ==
  [][(/\ last'.act \in {"TransportInitialize", "TransportRefuses"}
      /\ last'.header = NoHeader
      /\ last'.body = "initialize"
      /\ last'.wellFormed)
     => /\ last'.act = "TransportInitialize"
        /\ sessionIdOf'[last'.transport] \in DOMAIN transports'
        /\ transports'[sessionIdOf'[last'.transport]] = last'.transport
        /\ sessionIdOf'[last'.transport] \notin DOMAIN transports
        /\ sessionIdOf'[last'.transport] \notin issued
        /\ sessionIdOf'[last'.transport] \notin tornDown
        /\ last'.resp = TransportAnswer(sessionIdOf'[last'.transport])]_vars

\* C3 witness: a second initialization has just been handled after an
\* earlier session was torn down.
C3_Witness ==
  /\ last.act = "TransportInitialize"
  /\ last.header = NoHeader
  /\ sessionIdOf[last.transport] \in DOMAIN transports
  /\ tornDown # {}
  /\ Cardinality(issued) = 2

\* C4 (as claimed): a GET or DELETE whose session header is missing or is not
\* a key of the Session Table is answered 400 "Invalid or missing session ID"
\* and leaves the Session Table as it was.
C4_UnknownSessionRequestRejected ==
  [][(/\ last'.act \in SessionArrivals
      /\ last'.header \notin DOMAIN transports)
     => /\ last'.resp = InvalidSession
        /\ transports' = transports]_vars

\* Every table entry is keyed by its transport's session id, and no two
\* transports carry the same session id.
C5_LiveSessionsDistinct ==
  /\ \A k \in DOMAIN transports : sessionIdOf[transports[k]] = k
  /\ \A t, u \in 1..nTransports :
       (t # u /\ sessionIdOf[t] # NoSessionId) => sessionIdOf[t] # sessionIdOf[u]

\* C5: at most one live session per session id.  Every table entry holds a
\* transport whose session id is the entry's key, no two transports carry
\* the same session id, and no step replaces the transport of a key that
\* stays in the table.
C5_OneSessionPerId ==
  /\ []C5_LiveSessionsDistinct
  /\ [][\A k \in DOMAIN transports \cap DOMAIN transports' :
          transports'[k] = transports[k]]_vars

\* C5 witness: an initialization has just added a session beside a live one.
C5_Witness ==
  /\ last.act = "TransportInitialize"
  /\ Cardinality(DOMAIN transports) = 2


\* Steps in which a transport's close signal fires the teardown hook.
CloseSignals == {"TransportClose", "TransportDelete"}

\* C6: teardown is idempotent.  A close signal leaves the transport's session
\* id out of the Session Table and changes no other entry; and a close signal
\* that fires when the transport's session id is already absent (the hook ran
\* before, or the transport has no session id yet) leaves the table as it is.
C6_TeardownIdempotent ==
  [][last'.act \in CloseSignals
     => /\ sessionIdOf[last'.transport] \notin DOMAIN transports'
        /\ \A k \in DOMAIN transports \ {sessionIdOf[last'.transport]} :
             k \in DOMAIN transports' /\ transports'[k] = transports[k]
        /\ DOMAIN transports' \subseteq DOMAIN transports
        /\ (sessionIdOf[last'.transport] \notin DOMAIN transports
              => transports' = transports)]_vars

\* C6 witness: the hook of a session already torn down has just fired again,
\* while another session is live.
C6_Witness ==
  /\ last.act = "TransportClose"
  /\ last.header \in tornDown
  /\ last.resp.type = "hook"
  /\ last.resp.message = "no entry"
  /\ DOMAIN transports # {}

\* C7 (as claimed): once an initialize POST has been answered with a session
\* id, a GET that carries the id of a session the server issued and still
\* holds is handed to that session's transport and answered by it; a GET
\* that carries an id the server never issued is answered with the
\* invalid-session failure.
C7_GetAfterInitialize ==
  [][(last'.act \in SessionArrivals /\ last'.verb = "GET" /\ issued # {})
     => /\ last'.header \in DOMAIN transports
             => /\ last'.transport = transports[last'.header]
                /\ sessionIdOf[last'.transport] = last'.header
                /\ last'.resp = TransportAnswer("served")
        /\ (last'.header # NoHeader /\ last'.header \notin issued)
             => last'.resp = InvalidSession]_vars

\* A DELETE carrying `id` has been handed to a transport and is not done.
DeleteInFlight(id) ==
  \E r \in BagToSet(inflight) : r.verb = "DELETE" /\ r.header = id

\* C8: a DELETE that carries the id of a live session is handed to that
\* session's transport; the transport's close signal runs the teardown hook,
\* and the session's entry is eventually out of the Session Table.
C8_DeleteTearsDown ==
  /\ [][(/\ last'.act \in SessionArrivals
         /\ last'.verb = "DELETE"
         /\ last'.header \in DOMAIN transports)
        => /\ last'.transport = transports[last'.header]
           /\ \E r \in BagToSet(inflight') :
                /\ r.verb = "DELETE"
                /\ r.header = last'.header
                /\ r.transport = transports[last'.header]]_vars
  /\ [][last'.act = "TransportDelete"
        => /\ transports' = onclose(transports, last'.header)
           /\ last'.header \notin DOMAIN transports']_vars
  /\ \A id \in Ids : DeleteInFlight(id) ~> (id \notin DOMAIN transports)

\* C8 witness: the transport has just closed on a DELETE and the entry of
\* the session is gone.
C8_Witness ==
  /\ last.act = "TransportDelete"
  /\ last.header \in tornDown
  /\ last.header \notin DOMAIN transports
  /\ last.resp = TransportAnswer("closed")

\* C9: once the teardown hook of a session has run, the session id is never
\* a key of the Session Table again, and every later POST, GET or DELETE that
\* carries it is rejected by the router.
C9_TornDownStaysOut ==
  /\ [](tornDown \cap DOMAIN transports = {})
  /\ [][tornDown \subseteq tornDown']_vars
  /\ [][(/\ last'.act \in PostArrivals \cup SessionArrivals
         /\ last'.header \in tornDown)
        => /\ last'.resp = IF last'.verb = "POST" THEN BadRequestNoSession
                           ELSE InvalidSession
           /\ last'.transport = NoTransport]_vars

\* C9 witness: a POST carrying the id of a torn-down session has just been
\* rejected.
C9_Witness ==
  /\ last.act = "PostReject"
  /\ last.header \in tornDown
  /\ last.body = "tools/call"

\* C10: a request the router rejects with 400 is handed to no transport,
\* suspends nothing, and leaves the Session Table and every transport's
\* session id as they were.
C10_RejectionIsLocal ==
  [][last'.resp \in RouterRejections
     => /\ last'.transport = NoTransport
        /\ transports' = transports
        /\ sessionIdOf' = sessionIdOf
        /\ inflight' = inflight
        /\ tornDown' = tornDown]_vars

\* C10 witness: a request has just been rejected while two sessions are
\* live and a third exchange is suspended.
C10_Witness ==
  /\ last.resp \in RouterRejections
  /\ last.verb = "DELETE"
  /\ Cardinality(DOMAIN transports) = 2
  /\ inflight # EmptyBag

\* C11: when the API credential is missing (empty) at start-up, the only step
\* the process takes is to exit with a non-zero status: the server is never
\* started, and no state in which the listener is being bound or is bound
\* with an empty credential is reachable.
C11_NoListenerWithoutCredential ==
  /\ [](proc.phase \in {"starting", "listening"}
          => /\ proc.apiKey # EmptyString
             /\ proc.apiKey # Undefined)
  /\ [][(proc.phase = "main" /\ proc.apiKey = EmptyString)
          => /\ last'.act = "MainExits"
             /\ proc'.phase = "exited"
             /\ proc'.exitCode # 0]_vars
  /\ [](proc.phase = "exited" => proc.exitCode # 0)

\* C11 witness: the process has just exited with status 1 on an empty
\* credential.
C11_Witness ==
  /\ last.act = "MainExits"
  /\ proc.phase = "exited"
  /\ proc.exitCode = 1
  /\ proc.apiKey = EmptyString
  /\ nTransports = 0

\* A handler ran in the step just taken: a tools/call whose arguments pass
\* the tool's schema.
HandlerRan(inv) == inv.tool \in Tools /\ SchemaAccepts(inv.tool, inv.args)
\* The two outcomes of a tool: a success text block, an error-marked block
\* carrying a message.
SuccessTextBlock(result) ==
  result.kind = "block" /\ ~result.isError /\ IsString(result.text)
ErrorMarkedBlock(result) ==
  /\ result.kind = "block"
  /\ result.isError
  /\ IsString(result.text)
  /\ Len(result.text) > 1

\* C12 (as claimed): every invocation of each of the twelve tools ends in a
\* success text block or in an error-marked block carrying a message,
\* whatever the panel replies (a status other than 200, a failed call, a
\* malformed body).
C12_EveryToolEndsInTextBlock ==
  [][(last'.act = "ToolCall" /\ HandlerRan(invocation'))
     => \/ SuccessTextBlock(invocation'.result)
        \/ ErrorMarkedBlock(invocation'.result)]_vars

\* C13: start-instance called with a daemonId/instanceId pair, the call of
\* the panel returning status 200: the result is a block that is not
\* error-marked and whose text is "Successfully started instance " followed
\* by the caller's instanceId; the one request made is the start request for
\* that pair.
C13_StartInstanceSucceeds ==
  [][(/\ last'.act = "ToolCall"
      /\ invocation'.tool = "start-instance"
      /\ HandlerRan(invocation')
      /\ invocation'.reply.http = 200
      /\ invocation'.reply.body.status = StatusOK)
     => /\ SuccessTextBlock(invocation'.result)
        /\ invocation'.result.text
             = <<"Successfully started instance ">> \o invocation'.args.instanceId
        /\ invocation'.requests
             = <<startInstance(proc.apiKey, invocation'.args.instanceId,
                               invocation'.args.daemonId)>>]_vars

\* C13 witness: start-instance has just succeeded for instance "i" of
\* daemon "d".
C13_Witness ==
  /\ last.act = "ToolCall"
  /\ invocation.tool = "start-instance"
  /\ invocation.args.instanceId = InstanceId
  /\ invocation.args.daemonId = DaemonId
  /\ invocation.reply.http = 200
  /\ invocation.reply.body.status = StatusOK
  /\ invocation.result.text = <<"Successfully started instance ", "i">>
  /\ ~invocation.result.isError

\* C14: start-instance called, the panel answering HTTP 500: the result is
\* error-marked and its message contains the status 500; the step leaves the
\* Session Table, the transports and the process as they were, the process
\* is still listening, and a request on any live session is still served.
C14_StartInstanceFailureIsContained ==
  /\ [][(/\ last'.act = "ToolCall"
         /\ invocation'.tool = "start-instance"
         /\ HandlerRan(invocation')
         /\ invocation'.reply.http = 500)
        => /\ ErrorMarkedBlock(invocation'.result)
           /\ \E i \in DOMAIN invocation'.result.text :
                invocation'.result.text[i] = "500"
           /\ transports' = transports
           /\ sessionIdOf' = sessionIdOf
           /\ inflight' = inflight
           /\ proc' = proc
           /\ proc'.phase = "listening"]_vars
  /\ [](( /\ last.act = "ToolCall"
          /\ invocation.tool = "start-instance"
          /\ invocation.reply.http = 500)
        => \A h \in DOMAIN transports :
             /\ ENABLED PostReuse(h, "tools/call", TRUE)
             /\ ENABLED SessionRequestRoute("GET", h))

\* C14 witness: start-instance has just failed on an HTTP 500 while two
\* sessions are live.
C14_Witness ==
  /\ last.act = "ToolCall"
  /\ invocation.tool = "start-instance"
  /\ invocation.reply.http = 500
  /\ invocation.result.isError
  /\ invocation.result.text
       = <<"Error starting instance: ", "Request failed with status code ",
           "500">>
  /\ Cardinality(DOMAIN transports) = 2

\* C15: get-files called with path omitted makes the file-list call with an
\* empty target; and in the projection it returns, the type of every entry
\* of files is "directory" exactly when the raw type code of that entry is
\* 0, and "file" for every other code.
C15_GetFilesProjection ==
  [][(/\ last'.act = "ToolCall"
      /\ invocation'.tool = "get-files"
      /\ HandlerRan(invocation'))
     => /\ invocation'.args.path = Undefined
             => /\ invocation'.requests
                     = <<getFileList(proc.apiKey, invocation'.args.instanceId,
                                     invocation'.args.daemonId, EmptyString)>>
                /\ <<<<"target">>, EmptyString>>
                     \in QueryParams(invocation'.requests[1].url)
        /\ ~invocation'.result.isError
             => LET items == invocation'.reply.body.data.items
                    files == invocation'.result.files
                IN  /\ Len(files) = Len(items)
                    /\ \A i \in 1..Len(items) :
                         /\ files[i] = "directory" <=> items[i] = 0
                         /\ files[i] = "file" <=> items[i] # 0]_vars

\* C15 witness: get-files without path has just listed a directory and a
\* file whose raw type code is not 1.
C15_Witness ==
  /\ last.act = "ToolCall"
  /\ invocation.tool = "get-files"
  /\ invocation.args.path = Undefined
  /\ invocation.reply.body.data.items = <<0, 2>>
  /\ invocation.result.files = <<"directory", "file">>
  /\ ~invocation.result.isError

\* C16: every tool invocation issues at most one HTTP call to the panel, and
\* every method of the Upstream Client issues exactly one, the request of
\* that method, whether the call succeeds or fails.
C16_OneCallPerOperation ==
  [][/\ invocation'.tool \in Tools => Len(invocation'.requests) <= 1
     /\ invocation'.tool \in ApiMethods
          => invocation'.requests
               = <<ApiRequest(invocation'.tool, proc.apiKey,
                              invocation'.args)>>]_vars

\* C16 witness: a client method has just made its one request and got an
\* HTTP 500 for it.
C16_Witness ==
  /\ invocation.tool = "getUsers"
  /\ invocation.reply.http = 500
  /\ Len(invocation.requests) = 1

\* C17 (as claimed): a validation failure causes no HTTP call to the panel:
\* neither a request the router rejects, nor a tool invocation one of whose
\* required arguments is missing or empty.
C17_ValidationFailureMakesNoCall ==
  [][/\ last'.resp \in RouterRejections => invocation'.requests = << >>
     /\ (/\ last'.act = "ToolCall"
         /\ \E p \in RequiredParams(invocation'.tool) :
              ~TruthyString(invocation'.args[p]))
          => invocation'.requests = << >>]_vars

\* C18 (as claimed): every request a method of the Upstream Client issues
\* carries the configured credential as its apikey query parameter.
C18_EveryRequestCarriesApiKey ==
  [][invocation'.tool \in ApiMethods
       => \A i \in DOMAIN invocation'.requests :
            CarriesApiKey(invocation'.requests[i], proc.apiKey)]_vars

\* C19 (as claimed): for a client that initializes and then sends, one after
\* the other and with the session id it was issued, the requests of the test
\* client (list resources, read mcsm://overview, list tools) and finally
\* closes its session: each request is routed to that session's transport
\* and answered without error, and once the transport has closed the
\* session's entry is out of the Session Table.
C19_TestClientIsServed ==
  /\ [][last'.act = "RegistryRequest"
          => /\ last'.transport = transports[last'.header]
             /\ sessionIdOf[last'.transport] = last'.header
             /\ last'.resp.status = 200
             /\ last'.resp.code = 0
             /\ last'.resp = TransportAnswer("served")]_vars
  /\ [][last'.act = "TransportDelete"
          => last'.header \notin DOMAIN transports']_vars

\* C20 (as claimed): on a valid initialization POST the session is inserted
\* into the Session Table before the transport is connected: when the
\* handler hands the new transport to server.connect, the table holds an
\* entry for it.
C20_InsertBeforeConnect ==
  [][last'.act = "PostInitialize"
       => /\ last'.transport \in connected'
          /\ \E k \in DOMAIN transports' :
               transports'[k] = last'.transport]_vars

\* C20 (amended): on a valid initialization POST the new transport is
\* constructed with its teardown hook and handed to server.connect first, with
\* no table entry and no session id yet; then the request is routed to the
\* transport, still without an entry; the entry is inserted only while the
\* transport handles the request and accepts the initialization.  So every
\* transport in the Session Table has been connected before it was inserted.
C20_ConnectBeforeInsert ==
  /\ [](\A k \in DOMAIN transports : transports[k] \in connected)
  /\ [][last'.act = "PostInitialize"
          => /\ last'.transport \in connected'
             /\ last'.transport \notin connected
             /\ sessionIdOf'[last'.transport] = NoSessionId
             /\ transports' = transports
             /\ BagIn(Suspend("connecting", "POST", last'.header, last'.body,
                              last'.wellFormed, last'.transport),
                      inflight')]_vars
  /\ [][last'.act = "PostConnected"
          => /\ last'.transport \in connected
             /\ transports' = transports
             /\ sessionIdOf'[last'.transport] = NoSessionId
             /\ BagIn(Suspend("handling", "POST", last'.header, last'.body,
                              last'.wellFormed, last'.transport),
                      inflight')]_vars
  /\ [][DOMAIN transports' \ DOMAIN transports # {}
          => /\ last'.act = "TransportInitialize"
             /\ last'.transport \in connected
             /\ DOMAIN transports' \ DOMAIN transports
                  = {sessionIdOf'[last'.transport]}]_vars

\* C20 witness: a transport connected earlier has just accepted the
\* initialization and been inserted, beside a live session.
C20_Witness ==
  /\ last.act = "TransportInitialize"
  /\ last.transport \in connected
  /\ sessionIdOf[last.transport] \in DOMAIN transports
  /\ Cardinality(DOMAIN transports) = 2

\* ---------------------------------------------------------------- C21
\* Every live session's transport is the one the registry holds.
C21_LiveSessionsConnected ==
  \A k \in DOMAIN transports : serverTransport = transports[k]

\* C21 (as claimed): sessions are independent.  Every session in the Session
\* Table is still connected to the registry, a request carrying its id is
\* answered on its own transport, and no step that creates or closes another
\* session takes the registry away from it.
C21_SessionsIndependent ==
  /\ []C21_LiveSessionsConnected
  /\ [][last'.act = "RegistryRequest"
        => /\ last'.transport = transports[last'.header]
           /\ last'.resp # Unanswered]_vars

\* ---------------------------------------------------------------- C22
\* Every transport that has a session id and has not signalled closure holds
\* its own Session Table entry, under its own session id.
C22_EveryInitializedTransportBound ==
  \A t \in 1..nTransports :
    (sessionIdOf[t] # NoSessionId /\ sessionIdOf[t] \notin tornDown)
      => /\ sessionIdOf[t] \in DOMAIN transports
         /\ transports[sessionIdOf[t]] = t
         /\ \A u \in 1..nTransports : u # t => sessionIdOf[u] # sessionIdOf[t]

\* C22: initialization POSTs that are in flight together, interleaving at the
\* awaits, each end with their own Session Table entry.  The step in which a
\* transport accepts its initialization inserts an entry under a session id
\* that was not a key before, bound to that exchange's own transport, and
\* changes no other entry; and no initialized transport that has not closed
\* is ever without its entry.
C22_ConcurrentInitializationsKeepOwnEntries ==
  /\ []C22_EveryInitializedTransportBound
  /\ [][last'.act = "TransportInitialize"
        => /\ sessionIdOf[last'.transport] = NoSessionId
           /\ sessionIdOf'[last'.transport] \notin DOMAIN transports
           /\ DOMAIN transports' =
                DOMAIN transports \cup {sessionIdOf'[last'.transport]}
           /\ transports'[sessionIdOf'[last'.transport]] = last'.transport
           /\ \A k \in DOMAIN transports : transports'[k] = transports[k]]_vars

\* C22 witness: two initialization exchanges were suspended together and the
\* one that arrived second was initialized first; the first has just been
\* initialized too, and both entries are in the table.
C22_Witness ==
  /\ last.act = "TransportInitialize"
  /\ last.transport = 1
  /\ sessionIdOf[2] = Id(1)
  /\ sessionIdOf[1] = Id(2)
  /\ DOMAIN transports = {Id(1), Id(2)}
  /\ transports[Id(1)] = 2
  /\ transports[Id(2)] = 1

\* ---------------------------------------------------------------- C23
\* Steps in which the router hands a request to a transport it looked up.
RoutingSteps == {"PostReuse", "SessionRequestRoute", "RegistryRequest"}

\* C23: Session Table mutations are atomic and routing is atomic with the
\* lookup.  A step that changes the table is either the one step in which a
\* transport accepts its initialization, which adds that transport's entry
\* and nothing else, or one close signal, which removes that transport's
\* entry and nothing else.  A request routed in the reuse branch of POST or
\* by GET/DELETE is handed, in the step of the lookup, to the transport the
\* table holds under the request's header at that moment, and that step
\* leaves the table as it is.
C23_AtomicTableAndRouting ==
  [][/\ (transports' # transports) =>
          \/ /\ last'.act = "TransportInitialize"
             /\ sessionIdOf'[last'.transport] \notin DOMAIN transports
             /\ transports' = onsessioninitialized(
                                transports, sessionIdOf'[last'.transport],
                                last'.transport)
          \/ /\ last'.act \in CloseSignals
             /\ sessionIdOf[last'.transport] \in DOMAIN transports
             /\ DOMAIN transports' =
                  DOMAIN transports \ {sessionIdOf[last'.transport]}
             /\ \A k \in DOMAIN transports' : transports'[k] = transports[k]
     /\ (last'.act \in RoutingSteps) =>
          /\ last'.header \in DOMAIN transports
          /\ last'.transport = transports[last'.header]
          /\ transports' = transports]_vars

\* C23 witness: a POST has just been routed to a live session's transport
\* while a DELETE for the same session is suspended inside that transport.
C23_Witness ==
  /\ last.act = "PostReuse"
  /\ last.header \in DOMAIN transports
  /\ last.transport = transports[last.header]
  /\ \E r \in BagToSet(inflight) :
       r.verb = "DELETE" /\ r.header = last.header /\ r.pc = "handling"
  /\ Cardinality(DOMAIN transports) = 2

\* ---------------------------------------------------------------- C24
\* C24: a POST whose session header names a live session takes the reuse
\* branch whatever its body: it is handed to the transport the table holds
\* under that header, and the step constructs no transport, connects
\* nothing, suspends nothing, issues no session id and leaves the Session
\* Table as it is.  When the body is an initialize request, the session's
\* transport refuses it as already initialized.
C24_LiveHeaderReusesTransport ==
  [][(/\ last'.act \in PostArrivals
      /\ last'.header \in DOMAIN transports)
     => /\ last'.act = "PostReuse"
        /\ last'.transport = transports[last'.header]
        /\ nTransports' = nTransports
        /\ connected' = connected
        /\ serverTransport' = serverTransport
        /\ transports' = transports
        /\ sessionIdOf' = sessionIdOf
        /\ issued' = issued
        /\ inflight' = inflight
        /\ (last'.body = "initialize" /\ last'.wellFormed)
             => last'.resp =
                  TransportError("Invalid Request: Server already initialized")]_vars

\* C24 witness: a well-formed initialize request carrying the id of a live
\* session has just been handed to that session's transport, while there was
\* still room to construct another transport.
C24_Witness ==
  /\ last.act = "PostReuse"
  /\ last.body = "initialize"
  /\ last.wellFormed
  /\ last.header \in DOMAIN transports
  /\ last.transport = transports[last.header]
  /\ nTransports < MaxTransports
  /\ BagCardinality(inflight) < MaxInFlight

\* ---------------------------------------------------------------- C25
\* C25: the only step that removes a Session Table entry is a close signal
\* of the transport that entry holds.  No other step (no request of any
\* kind, no rejection, no other session's creation or teardown, no timer)
\* removes or replaces it: as long as its transport has not signalled
\* closure, a session stays in the table, bound to the same transport.
C25_OnlyOwnCloseRemoves ==
  [][\A k \in DOMAIN transports :
       \/ /\ k \in DOMAIN transports'
          /\ transports'[k] = transports[k]
       \/ /\ last'.act \in CloseSignals
          /\ last'.transport = transports[k]
          /\ k \notin DOMAIN transports']_vars

\* C25 witness: the first session is still in the table, bound to its
\* transport, after a second session was created beside it and torn down
\* again and a request was rejected.
C25_Witness ==
  /\ Id(1) \in DOMAIN transports
  /\ transports[Id(1)] = 1
  /\ sessionIdOf[1] = Id(1)
  /\ Id(2) \in tornDown
  /\ Id(1) \notin tornDown
  /\ last.act = "PostReject"

\* ---------------------------------------------------------------- C26
\* Steps that end a POST exchange or take it over
\* from the router.
C26_MalformedSteps ==
  {"JsonDecodeFails", "PostReuse", "PostReuseThrows", "PostReject",
   "PostInitialize", "TransportRefuses"}

\* C26 (as claimed): a request whose body fails to decode or is malformed is
\* answered with an error response on its own exchange and leaves the Session
\* Table unchanged, whatever its session header; and an initialization POST
\* that its transport refuses is answered with an error, adds no entry and
\* leaves its transport without a session id.
C26_MalformedBodyAnsweredWithError ==
  [][(/\ last'.act \in C26_MalformedSteps
      /\ ~last'.wellFormed)
     => /\ transports' = transports
        /\ issued' = issued
        /\ last'.act # "PostInitialize" => last'.resp.status = 400
        /\ last'.act = "TransportRefuses"
             => /\ sessionIdOf'[last'.transport] = NoSessionId
                /\ \A k \in DOMAIN transports' :
                     transports'[k] # last'.transport]_vars

\* ---------------------------------------------------------------- C27
\* Session ids this server issued whose session has not been torn down.
C27_LiveIssuedIds == issued \ tornDown

\* C27 (as claimed): a request is handed to a transport only if its session
\* header is an id this server issued and whose session has not been torn
\* down; a request carrying any other header value (the empty string, the
\* name of a built-in object property, an id never issued or already torn
\* down) is answered with the router's rejection and reaches no transport.
C27_OnlyLiveIssuedIdsRouted ==
  [][/\ (last'.act \in PostArrivals \cup SessionArrivals
           /\ last'.header # NoHeader
           /\ last'.header \notin C27_LiveIssuedIds)
        => /\ last'.resp \in RouterRejections
           /\ last'.transport = NoTransport
           /\ nTransports' = nTransports
           /\ inflight' = inflight
     /\ (last'.act \in PostArrivals \cup SessionArrivals
           /\ last'.header # NoHeader
           /\ last'.transport # NoTransport)
        => /\ last'.header \in C27_LiveIssuedIds
           /\ last'.transport = transports[last'.header]]_vars

\* ---------------------------------------------------------------- C28
\* C28: the teardown hook removes only its own session's entry.  When the
\* transport of a session A signals closure, every entry that holds another
\* transport is still in the Session Table after the step, bound to the same
\* transport, and that transport keeps its session id.
C28_TeardownLeavesOthers ==
  [][last'.act \in CloseSignals
     => \A k \in DOMAIN transports :
          transports[k] # last'.transport
            => /\ k \in DOMAIN transports'
               /\ transports'[k] = transports[k]
               /\ sessionIdOf'[transports'[k]] = k]_vars

\* C28 witness: the close signal of one live session has just removed its
\* entry while another session is live and stays in the table.
C28_Witness ==
  /\ last.act = "TransportClose"
  /\ last.resp.message = "entry removed"
  /\ sessionIdOf[last.transport] \in tornDown
  /\ sessionIdOf[last.transport] \notin DOMAIN transports
  /\ Cardinality(issued) = 2
  /\ \E k \in DOMAIN transports :
       /\ transports[k] # last.transport
       /\ sessionIdOf[transports[k]] = k

\* ---------------------------------------------------------------- C29
\* Each entry's key is the session id of the transport it holds, and no
\* transport is held under two keys.
C29_KeyIsTransportSessionId ==
  /\ \A k \in DOMAIN transports :
       /\ transports[k] \in 1..nTransports
       /\ sessionIdOf[transports[k]] = k
  /\ \A k, j \in DOMAIN transports : transports[k] = transports[j] => k = j

\* C29: in every reachable state each Session Table entry is keyed by the
\* session id of the transport it holds and no transport is held under two
\* keys; hence a close signal of a transport that has an entry removes that
\* entry, the one inserted for it, and no other, and a transport's session
\* id, once set, never changes.
C29_HookRemovesExactlyOwnEntry ==
  /\ []C29_KeyIsTransportSessionId
  /\ [][/\ \A t \in 1..nTransports :
             sessionIdOf[t] # NoSessionId => sessionIdOf'[t] = sessionIdOf[t]
        /\ last'.act \in CloseSignals
             => /\ {k \in DOMAIN transports : k \notin DOMAIN transports'}
                     = {k \in DOMAIN transports :
                          transports[k] = last'.transport}
                /\ \A k \in DOMAIN transports' :
                     k \in DOMAIN transports /\ transports'[k] = transports[k]]_vars

\* C29 witness: with two sessions in the table, a DELETE has just closed the
\* transport that was initialized second, and exactly the first session's
\* entry is left.
C29_Witness ==
  /\ last.act = "TransportDelete"
  /\ nTransports = 2
  /\ sessionIdOf[last.transport] = Id(2)
  /\ Id(2) \in tornDown
  /\ DOMAIN transports = {Id(1)}
  /\ sessionIdOf[transports[Id(1)]] = Id(1)

====
